---- MODULE Spec2Model ----
(***************************************************************************)
(* Model of the rossum-hooks extensions: the relation reconcilers of       *)
(* searchable_pdf, document_attachment_consolidation and gpg_encryption,   *)
(* running against the external document / document_relation store, and    *)
(* the paginated fetch loops ApiClient.get and request_paginated_url.      *)
(***************************************************************************)
EXTENDS Integers, Sequences, FiniteSets, TLC

\* ------------------------------------------------------------------ bounds

\* number of hook invocations started in one behaviour
MaxInvocations == 2
\* number of responses the server of the paginated fetch holds
MaxPages == 3

\* ------------------------------------------------------------ store, hooks

VARIABLES
    docs,       \* ids of the documents live in the store
    nextDoc,    \* id the store gives to the next uploaded document
    rels,       \* the document_relations of the store, in creation order
    inv,        \* inv[p]: the hook invocation run by process p
    started,    \* number of invocations started so far
    hist,       \* outcome of every finished invocation, in order of finishing
    store0,     \* the store as it was before the first invocation
    fetch,      \* the paginated fetch in progress (see the fetch section)
    chunking,   \* a call of chunked_ranges
    asm,        \* a call of build_page_data_list
    gather,     \* the consolidation handler gathering the annotations to process
    handler,    \* a hook handler reading its payload
    place,      \* the placement of one OCR token on its page
    overlay     \* a call of create_ocr_overlay_pdf

\* the state of the functions studied on their own
pureVars == <<chunking, asm, gather, handler, place, overlay>>
vars == <<docs, nextDoc, rels, inv, started, hist, store0, fetch, pureVars>>
storeVars == <<docs, nextDoc, rels, inv, started, hist, store0>>

\* a function that is not under study
Unused == [pc |-> "idle"]

Procs == {1, 2}
Hooks == {"searchable_pdf", "consolidation", "gpg"}
Keys == {"export_pdf", "encrypted"}
Annotations == {7}

\* a url is its sequence of path segments below {base_url}/api/v1
NoUrl == <<>>
DocumentUrl(id) == <<"documents", id>>
AnnotationUrl(id) == <<"annotations", id>>
\* url.split("/")[-1]
LastSegment(url) == url[Len(url)]

Range(s) == {s[i] : i \in 1..Len(s)}

\* GET document_relations?key=..&annotation=..: the store's filter; the
\* relations come back in creation order
FilterRelations(rs, key, annotation) ==
    SelectSeq(rs, LAMBDA r : r.key = key /\ r.annotation = AnnotationUrl(annotation))

\* variant: the relation is posted with the type of the attachment relations
NewRelationBody_Attachment(key, annotation, documentUrl) ==
    [type |-> "attachment", key |-> key, annotation |-> AnnotationUrl(annotation),
     documents |-> <<documentUrl>>]

\* body of POST document_relations
NewRelationBody(key, annotation, documentUrl) ==
    [type |-> "export", key |-> key, annotation |-> AnnotationUrl(annotation),
     documents |-> <<documentUrl>>]

\* variant: the store keeps one relation per (key, annotation)
StoreCreateRelation_Unique(rs, body) ==
    IF \E i \in 1..Len(rs) : rs[i].key = body.key /\ rs[i].annotation = body.annotation
    THEN rs
    ELSE Append(rs, [id |-> Len(rs) + 1, type |-> body.type, key |-> body.key,
                     annotation |-> body.annotation, documents |-> body.documents])

\* the store creates the relation of a POST body, giving it the next id
StoreCreateRelation(rs, body) ==
    Append(rs, [id |-> Len(rs) + 1, type |-> body.type, key |-> body.key,
                annotation |-> body.annotation, documents |-> body.documents])

\* variant: the PATCH leaves the new document out
PatchBody_Empty(documentUrl) == <<>>

\* body of PATCH document_relations/{id}
PatchBody(documentUrl) == <<documentUrl>>

\* the store applies PATCH {"documents": d} to the relation with that id
StorePatchRelation(rs, id, d) ==
    [i \in 1..Len(rs) |-> IF rs[i].id = id THEN [rs[i] EXCEPT !.documents = d] ELSE rs[i]]

\* variant: no stale document is deleted
DocumentsToDelete_None(hook, documents) == <<>>

\* the documents each reconciler deletes, given the documents list of the
\* relation it found
DocumentsToDelete(hook, documents) ==
    IF hook = "gpg" THEN documents
    ELSE IF documents # <<>> THEN <<documents[1]>> ELSE <<>>

\* variant: the last match is taken
Canonical_Last(matches) == IF matches = <<>> THEN <<>> ELSE <<matches[Len(matches)]>>

\* the first match is the canonical relation
Canonical(matches) == IF matches = <<>> THEN <<>> ELSE <<matches[1]>>

\* ---------------------------------------------------------- control flow

\* first step of the reconcile stage once the artifact bytes exist
AfterPrepare(hook) == IF hook = "searchable_pdf" THEN "lookup" ELSE "upload"

\* variant: consolidation and gpg create a relation whatever the lookup found
AfterLookup_AlwaysCreate(hook, matches) ==
    IF hook = "searchable_pdf"
    THEN IF matches # <<>> THEN "retrieve" ELSE "upload"
    ELSE "create"

\* the branch on the result of the lookup
AfterLookup(hook, matches) ==
    IF hook = "searchable_pdf"
    THEN IF matches # <<>> THEN "retrieve" ELSE "upload"
    ELSE IF matches # <<>> THEN "update" ELSE "create"

AfterRetrieve(todo) ==
    IF todo # <<>> THEN "delete" ELSE "upload"

AfterUpload(hook, matches) ==
    IF hook = "searchable_pdf"
    THEN IF matches # <<>> THEN "update" ELSE "create"
    ELSE "lookup"

AfterUpdate(hook, todo) ==
    IF hook = "searchable_pdf" THEN "done"
    ELSE IF todo # <<>> THEN "delete" ELSE "done"

AfterDelete(hook, todo) ==
    IF hook = "searchable_pdf" THEN "upload"
    ELSE IF todo # <<>> THEN "delete" ELSE "done"

\* how the response to POST documents is taken by each hook:
\* "ok", or the step fails
UploadOutcome(hook, kind) ==
    CASE kind = "http_error" -> "failed"
      [] kind = "no_url" -> IF hook = "consolidation" THEN "ok" ELSE "failed"
      [] kind = "no_id" -> IF hook = "consolidation" THEN "failed" ELSE "ok"
      [] OTHER -> "ok"

Idle(p) == inv[p].pc \in {"idle", "done", "failed"}

IdleInv ==
    [hook |-> "none", pc |-> "idle", at |-> "idle", key |-> "none", annotation |-> 0,
     upload |-> "none", document |-> NoUrl, matches |-> <<>>, relation |-> <<>>, todo |-> <<>>,
     calls |-> <<>>, pre |-> [docs |-> {}, rels |-> <<>>]]

\* the stores an invocation can meet: no relation, or one relation of the
\* first key holding zero, one or two documents, all of them live
InitStores ==
    { [docs |-> {}, rels |-> <<>>] } \cup
    { [docs |-> Range(d) \cup extra,
       rels |-> <<[id |-> 1, type |-> "export", key |-> "export_pdf",
                   annotation |-> AnnotationUrl(7),
                   documents |-> [i \in 1..Len(d) |-> DocumentUrl(d[i])]]>>] :
      d \in {<<>>, <<1>>, <<1, 2>>}, extra \in {{}} }

\* no paginated fetch is under study
FetchIdle ==
    [pc |-> "idle", impl |-> "none", server |-> <<>>, url |-> 0, results |-> <<>>,
     log |-> <<>>, ret |-> [kind |-> "none", value |-> <<>>], error |-> "none"]

Init ==
    /\ \E s \in InitStores :
         /\ docs = s.docs
         /\ rels = s.rels
         /\ store0 = s
    /\ nextDoc = 3
    /\ inv = [p \in Procs |-> IdleInv]
    /\ started = 0
    /\ hist = <<>>
    /\ fetch = FetchIdle
    /\ chunking = Unused /\ asm = Unused /\ gather = Unused
    /\ handler = Unused /\ place = Unused /\ overlay = Unused

Finish(p, result, at) ==
    hist' = Append(hist, [proc |-> p, hook |-> inv[p].hook, key |-> inv[p].key,
                          annotation |-> inv[p].annotation, result |-> result,
                          at |-> at, document |-> inv[p]'.document])

Log(p, call) == Append(inv[p].calls, call)

\* the step at pc fails: the exception leaves the handler
Abort(p, call) ==
    /\ inv' = [inv EXCEPT ![p].pc = "failed", ![p].at = inv[p].pc,
                          ![p].calls = Log(p, call)]
    /\ Finish(p, "abort", inv[p].pc)
    /\ UNCHANGED <<docs, nextDoc, rels, started, store0, fetch, pureVars>>

\* an invocation ends when its pc becomes "done"
Ending(p) ==
    IF inv[p]'.pc = "done"
    THEN Finish(p, "ok", "done")
    ELSE UNCHANGED hist

\* ---------------------------------------------------------------- actions

\* the platform invokes a hook for an annotation; the key is the hook's
\* configured export_reference_key / target_document_key
Start(p, hook, key, annotation) ==
    /\ Idle(p)
    /\ started < MaxInvocations
    /\ started' = started + 1
    /\ inv' = [inv EXCEPT ![p] = [IdleInv EXCEPT !.hook = hook, !.pc = "prepare",
                                     !.key = key, !.annotation = annotation,
                                     !.pre = [docs |-> docs, rels |-> rels]]]
    /\ UNCHANGED <<docs, nextDoc, rels, hist, store0, fetch, pureVars>>

\* everything before the upload/reconcile stage: the page assembly and the
\* rendering (searchable_pdf, consolidation), the fetch and encryption of the
\* source document (gpg); it only reads the store
Prepare(p, ok) ==
    /\ inv[p].pc = "prepare"
    /\ IF ok
       THEN /\ inv' = [inv EXCEPT ![p].pc = AfterPrepare(inv[p].hook),
                                  ![p].calls = Log(p, "GET")]
            /\ UNCHANGED <<docs, nextDoc, rels, started, hist, store0, fetch, pureVars>>
       ELSE Abort(p, "GET")

\* GET document_relations?key=..&annotation=..
Lookup(p, ok) ==
    /\ inv[p].pc = "lookup"
    /\ LET hook == inv[p].hook
           matches == FilterRelations(rels, inv[p].key, inv[p].annotation)
       IN  IF ok /\ ~(hook = "consolidation" /\ inv[p].document = NoUrl)
           THEN /\ inv' = [inv EXCEPT ![p].pc = AfterLookup(hook, matches),
                                      ![p].matches = matches,
                                      ![p].relation =
                                          IF hook = "searchable_pdf" THEN <<>>
                                          ELSE Canonical(matches),
                                      ![p].calls = Log(p, "GET")]
                /\ UNCHANGED <<docs, nextDoc, rels, started, hist, store0, fetch, pureVars>>
           ELSE Abort(p, "GET")

\* searchable_pdf: GET document_relations/{id} of the first match
Retrieve(p, ok) ==
    /\ inv[p].pc = "retrieve"
    /\ LET id == inv[p].matches[1].id
           relation == CHOOSE r \in Range(rels) : r.id = id
           todo == DocumentsToDelete(inv[p].hook, relation.documents)
       IN  IF ok
           THEN /\ inv' = [inv EXCEPT ![p].pc = AfterRetrieve(todo),
                                      ![p].relation = <<relation>>,
                                      ![p].todo = todo,
                                      ![p].calls = Log(p, "GET")]
                /\ UNCHANGED <<docs, nextDoc, rels, started, hist, store0, fetch, pureVars>>
           ELSE Abort(p, "GET")

\* POST documents: the store keeps the file and answers {id, url}
Upload(p, kind) ==
    /\ inv[p].pc = "upload"
    /\ nextDoc \notin docs
    /\ LET hook == inv[p].hook
       IN  IF UploadOutcome(hook, kind) = "ok"
           THEN /\ inv' = [inv EXCEPT ![p].pc = AfterUpload(hook, inv[p].matches),
                                      ![p].upload = kind,
                                      ![p].document =
                                          IF kind = "no_url" THEN NoUrl
                                          ELSE DocumentUrl(nextDoc),
                                      ![p].calls = Log(p, "POST documents")]
                /\ IF kind = "no_url"
                   THEN UNCHANGED <<docs, nextDoc>>
                   ELSE /\ docs' = docs \cup {nextDoc}
                        /\ nextDoc' = nextDoc + 1
                /\ UNCHANGED <<rels, started, hist, store0, fetch, pureVars>>
           ELSE /\ inv' = [inv EXCEPT ![p].pc = "failed", ![p].at = "upload",
                                      ![p].upload = kind,
                                      ![p].calls = Log(p, "POST documents")]
                /\ Finish(p, "abort", "upload")
                /\ UNCHANGED <<docs, nextDoc, rels, started, store0, fetch, pureVars>>

\* POST document_relations
CreateRelation(p, ok) ==
    /\ inv[p].pc = "create"
    /\ IF ok
       THEN /\ rels' = StoreCreateRelation(
                           rels, NewRelationBody(inv[p].key, inv[p].annotation,
                                                 inv[p].document))
            /\ inv' = [inv EXCEPT ![p].pc = "done", ![p].at = "done",
                                  ![p].calls = Log(p, "POST document_relations")]
            /\ Ending(p)
            /\ UNCHANGED <<docs, nextDoc, started, store0, fetch, pureVars>>
       ELSE Abort(p, "POST document_relations")

\* PATCH document_relations/{id}
UpdateRelation(p, ok) ==
    /\ inv[p].pc = "update"
    /\ LET hook == inv[p].hook
           relation == inv[p].relation[1]
           todo == IF hook = "searchable_pdf" THEN <<>>
                   ELSE DocumentsToDelete(hook, relation.documents)
       IN  IF ok
           THEN /\ rels' = StorePatchRelation(rels, relation.id, PatchBody(inv[p].document))
                /\ inv' = [inv EXCEPT ![p].pc = AfterUpdate(hook, todo),
                                      ![p].at = AfterUpdate(hook, todo),
                                      ![p].todo = todo,
                                      ![p].calls = Log(p, "PATCH")]
                /\ Ending(p)
                /\ UNCHANGED <<docs, nextDoc, started, store0, fetch, pureVars>>
           ELSE Abort(p, "PATCH")

\* DELETE documents/{id}: the store answers 404 for a document it no longer has
DeleteDocument(p, ok) ==
    /\ inv[p].pc = "delete"
    /\ LET hook == inv[p].hook
           id == LastSegment(inv[p].todo[1])
           todo == Tail(inv[p].todo)
       IN  IF ok /\ id \in docs
           THEN /\ docs' = docs \ {id}
                /\ inv' = [inv EXCEPT ![p].pc = AfterDelete(hook, todo),
                                      ![p].at = AfterDelete(hook, todo),
                                      ![p].todo = todo,
                                      ![p].calls = Log(p, "DELETE")]
                /\ Ending(p)
                /\ UNCHANGED <<nextDoc, rels, started, store0, fetch, pureVars>>
           ELSE Abort(p, "DELETE")

Step(p) ==
    \/ \E ok \in BOOLEAN : Prepare(p, ok)
    \/ \E ok \in BOOLEAN : Lookup(p, ok)
    \/ \E ok \in BOOLEAN : Retrieve(p, ok)
    \/ \E kind \in {"ok", "http_error", "no_url", "no_id"} : Upload(p, kind)
    \/ \E ok \in BOOLEAN : CreateRelation(p, ok)
    \/ \E ok \in BOOLEAN : UpdateRelation(p, ok)
    \/ \E ok \in BOOLEAN : DeleteDocument(p, ok)

AllIdle == \A p \in Procs : Idle(p)

\* invocations run one after the other: a hook starts when none is running
\* (which process runs it makes no difference then: it is the first)
StartSequential ==
    \E hook \in Hooks, key \in Keys, annotation \in Annotations :
        AllIdle /\ Start(1, hook, key, annotation)

Next ==
    \/ StartSequential
    \/ \E p \in Procs : Step(p)

Spec == Init /\ [][Next]_vars

\* ----------------------------------------------------- reconciler claims

\* positions in the store of the relations of a (key, annotation) pair
RelationsFor(key, annotation) ==
    {i \in 1..Len(rels) : rels[i].key = key /\ rels[i].annotation = AnnotationUrl(annotation)}

\* finished invocations of a (key, annotation) pair, in order
PairHist(key, annotation) ==
    SelectSeq(hist, LAMBDA h : h.key = key /\ h.annotation = annotation)

InitiallyUnrelated(key, annotation) ==
    \A i \in 1..Len(store0.rels) :
        ~(store0.rels[i].key = key /\ store0.rels[i].annotation = AnnotationUrl(annotation))

ReconcileStage == {"upload", "lookup", "retrieve", "create", "update", "delete"}

\* C1: in every reachable state, aborted invocations included, no relation
\* references a document that has been deleted from the store (the relation
\* is updated before any document it referenced is deleted).
C1_NoRelationReferencesDeletedDocument ==
    \A i \in 1..Len(rels) :
        \A u \in Range(rels[i].documents) : LastSegment(u) \in docs

\* C2: after n >= 1 successful sequential invocations on a pair that had no
\* relation at first, with artifacts A1..An, the store holds exactly one
\* relation for the pair, its documents are [An], and A1..A(n-1) are deleted.
C2_SuccessfulRunsLeaveLastArtifact ==
    \A key \in Keys, annotation \in Annotations :
        LET H == PairHist(key, annotation)
            R == RelationsFor(key, annotation)
        IN  (/\ AllIdle
             /\ InitiallyUnrelated(key, annotation)
             /\ Len(H) >= 1
             /\ \A i \in 1..Len(H) : H[i].result = "ok")
            => /\ Cardinality(R) = 1
               /\ \A r \in R : rels[r].documents = <<H[Len(H)].document>>
               /\ \A i \in 1..(Len(H) - 1) : LastSegment(H[i].document) \notin docs

\* C2 witness: two successful invocations ran on a pair with no relation at first
C2_Witness ==
    \E key \in Keys, annotation \in Annotations :
        LET H == PairHist(key, annotation)
        IN  /\ AllIdle
            /\ InitiallyUnrelated(key, annotation)
            /\ Len(H) = 2
            /\ H[1].result = "ok" /\ H[2].result = "ok"
            /\ H[1].hook # H[2].hook

\* C3: after a successful reconciliation that found a relation, every document
\* that relation referenced before the update has been deleted.
C3_EveryPreviousDocumentDeleted ==
    \A p \in Procs :
        (inv[p].pc = "done" /\ inv[p].relation # <<>>)
        => \A u \in Range(inv[p].relation[1].documents) : LastSegment(u) \notin docs

\* C4: a successful reconcile that found no relation has created exactly one
\* relation of type "export" with the key, the annotation and documents ==
\* [new artifact]; it issued no PATCH and no DELETE; every other relation and
\* every document that was in the store is unchanged.
C4_CreatePathFrame ==
    \A p \in Procs :
        (inv[p].pc = "done" /\ inv[p].matches = <<>>)
        => LET pre == inv[p].pre
               n == Len(pre.rels)
           IN  /\ Len(rels) = n + 1
               /\ \A i \in 1..n : rels[i] = pre.rels[i]
               /\ rels[n + 1].type = "export"
               /\ rels[n + 1].key = inv[p].key
               /\ rels[n + 1].annotation = AnnotationUrl(inv[p].annotation)
               /\ rels[n + 1].documents = <<inv[p].document>>
               /\ inv[p].document # NoUrl
               /\ docs = pre.docs \cup {LastSegment(inv[p].document)}
               /\ LastSegment(inv[p].document) \notin pre.docs
               /\ \A c \in Range(inv[p].calls) : c \notin {"PATCH", "DELETE"}
               /\ Cardinality({i \in 1..Len(inv[p].calls) :
                                  inv[p].calls[i] = "POST document_relations"}) = 1

\* C4 witness: the create path ran to its end in a store that already held a
\* relation and documents
C4_Witness ==
    \E p \in Procs :
        /\ inv[p].pc = "done" /\ inv[p].matches = <<>>
        /\ inv[p].pre.rels # <<>>
        /\ inv[p].pre.docs # {}

\* C5: with invocations run one after the other, each completing or aborting
\* at any call, at most one relation exists per (key, annotation) pair.
C5_AtMostOneRelationPerPair ==
    \A key \in Keys, annotation \in Annotations :
        Cardinality(RelationsFor(key, annotation)) <= 1

\* C5 witness: an invocation found the relation an earlier one created and
\* updated it
C5_Witness ==
    \E p \in Procs :
        /\ inv[p].pc = "done" /\ inv[p].matches # <<>>
        /\ "PATCH" \in Range(inv[p].calls)
        /\ Len(hist) = 2 /\ hist[1].result = "ok"
        /\ hist[1].key = inv[p].key
        /\ InitiallyUnrelated(inv[p].key, inv[p].annotation)
        /\ Cardinality(RelationsFor(inv[p].key, inv[p].annotation)) = 1

\* C6: once an invocation has aborted at a call of the upload/reconcile stage,
\* a later invocation for the same pair that succeeds leaves exactly one
\* relation for the pair, whose documents list is exactly its own artifact.
C6_ConvergesAfterAbort ==
    (/\ AllIdle
     /\ Len(hist) >= 2
     /\ hist[Len(hist)].result = "ok"
     /\ \E i \in 1..(Len(hist) - 1) :
            /\ hist[i].result = "abort"
            /\ hist[i].at \in ReconcileStage
            /\ hist[i].key = hist[Len(hist)].key
            /\ hist[i].annotation = hist[Len(hist)].annotation)
    => LET h == hist[Len(hist)]
           R == RelationsFor(h.key, h.annotation)
       IN  /\ Cardinality(R) = 1
           /\ \A r \in R : rels[r].documents = <<h.document>>

\* C6 witness: an invocation aborted between the relation update and the end
\* of the deletions, and a later one for the same pair succeeded
C6_Witness ==
    /\ AllIdle
    /\ Len(hist) = 2
    /\ hist[1].result = "abort" /\ hist[1].at = "delete"
    /\ hist[2].result = "ok"
    /\ hist[1].key = hist[2].key

\* the response to POST documents was an error status, or lacked the url or
\* the id the hook reads from it
UploadFailed(p) ==
    \/ inv[p].upload \in {"http_error", "no_url"}
    \/ inv[p].upload = "no_id" /\ inv[p].hook = "consolidation"

\* C7: when the upload of the new artifact fails, the invocation aborts with
\* the store's relations and documents as they were before the invocation.
C7_FailedUploadCommitsNothing ==
    \A p \in Procs :
        (inv[p].pc = "failed" /\ UploadFailed(p))
        => /\ docs = inv[p].pre.docs
           /\ rels = inv[p].pre.rels

\* --------------------------------------------------------- paginated fetch

FetchImpls == {"ApiClient.get", "request_paginated_url"}

\* the url of a page is its position on the server; None is 0
None == 0

\* results of page i: n items that no other page holds
Items(i, n) == [j \in 1..n |-> 10 * i + j]

\* what a page of the server answers: an error status, or a JSON object with
\* or without the keys "results" and "pagination", "results" empty or not
Shapes ==
    {"error", "bare", "results_only", "pagination_only", "paginated_empty", "paginated"}

\* the answer of page i out of n; every page but the last links to the next
\* one, the last has next null, or no next key when nextAbsent
Response(i, shape, n, nextAbsent) ==
    [status |-> IF shape = "error" THEN 500 ELSE 200,
     keys |-> CASE shape \in {"paginated", "paginated_empty"} -> {"results", "pagination"}
                [] shape = "results_only" -> {"results"}
                [] shape = "pagination_only" -> {"pagination"}
                [] OTHER -> {},
     results |-> IF shape \in {"paginated", "results_only"} THEN Items(i, 2) ELSE <<>>,
     hasNext |-> shape \in {"paginated", "paginated_empty", "pagination_only"}
                 /\ ~(i = n /\ nextAbsent),
     next |-> IF i < n THEN i + 1 ELSE None]

Servers(n) ==
    { [i \in 1..n |-> Response(i, sh[i], n, nextAbsent)] :
      sh \in [1..n -> Shapes], nextAbsent \in BOOLEAN }

NoReturn == [kind |-> "none", value |-> <<>>]

\* variant: the status of the response is not looked at
RaiseForStatus_Never(status) == FALSE

\* response.raise_for_status()
RaiseForStatus(status) == status \notin 200..299

\* isinstance(response, dict) and "results" in response and "pagination" in response
IsPaginated(response) == {"results", "pagination"} \subseteq response.keys

Raised(f, error) == [f EXCEPT !.pc = "raised", !.error = error]

\* one iteration of the while loop of ApiClient.get, the request made
ApiClientGetIteration(f, response) ==
    IF RaiseForStatus(response.status) THEN Raised(f, "HTTPError")
    ELSE IF IsPaginated(response)
    THEN [f EXCEPT !.results = f.results \o response.results,
                   !.url = IF response.hasNext THEN response.next ELSE None]
    ELSE [f EXCEPT !.pc = "returned", !.ret = [kind |-> "response", value |-> response]]

\* one iteration of the while loop of request_paginated_url, the request made
RequestPaginatedUrlIteration(f, response) ==
    IF RaiseForStatus(response.status) THEN Raised(f, "HTTPError")
    ELSE IF "results" \notin response.keys THEN Raised(f, "KeyError")
    ELSE IF "pagination" \notin response.keys \/ ~response.hasNext
    THEN Raised([f EXCEPT !.results = f.results \o response.results], "KeyError")
    ELSE [f EXCEPT !.results = f.results \o response.results, !.url = response.next]

\* the fetch starts on the first page of some server
InitFetch ==
    /\ chunking = Unused /\ asm = Unused /\ gather = Unused
    /\ handler = Unused /\ place = Unused /\ overlay = Unused
    /\ docs = {} /\ nextDoc = 3 /\ rels = <<>>
    /\ store0 = [docs |-> {}, rels |-> <<>>]
    /\ inv = [p \in Procs |-> IdleInv]
    /\ started = 0
    /\ hist = <<>>
    /\ \E n \in 1..MaxPages, impl \in FetchImpls :
         \E server \in Servers(n) :
            fetch = [FetchIdle EXCEPT !.pc = "running", !.impl = impl,
                                      !.server = server, !.url = 1]

\* while url: request it and take the response
FetchRequest ==
    /\ fetch.pc = "running"
    /\ fetch.url # None
    /\ LET response == fetch.server[fetch.url]
           f == [fetch EXCEPT !.log = Append(fetch.log, fetch.url)]
       IN  fetch' = IF fetch.impl = "ApiClient.get"
                    THEN ApiClientGetIteration(f, response)
                    ELSE RequestPaginatedUrlIteration(f, response)
    /\ UNCHANGED <<storeVars, pureVars>>

\* the loop ends on a url that is None: return results
FetchReturn ==
    /\ fetch.pc = "running"
    /\ fetch.url = None
    /\ fetch' = [fetch EXCEPT !.pc = "returned",
                              !.ret = [kind |-> "list", value |-> fetch.results]]
    /\ UNCHANGED <<storeVars, pureVars>>

NextFetch == FetchRequest \/ FetchReturn

SpecFetch == InitFetch /\ [][NextFetch]_vars

\* ---------------------------------------------------------- fetch claims

\* a 2xx response of the shape {results, pagination}
PaginatedShape(r) ==
    r.status \in 200..299 /\ "results" \in r.keys /\ "pagination" \in r.keys

\* a chain: every response paginated, each linked to the next by
\* pagination.next, the last with next null or absent
IsChain(server) ==
    /\ Len(server) >= 1
    /\ \A i \in 1..Len(server) : PaginatedShape(server[i])
    /\ \A i \in 1..(Len(server) - 1) : server[i].hasNext /\ server[i].next = i + 1
    /\ server[Len(server)].hasNext => server[Len(server)].next = None

RECURSIVE ConcatResults(_, _)
\* the results of the first n pages, in page order
ConcatResults(server, n) ==
    IF n = 0 THEN <<>> ELSE ConcatResults(server, n - 1) \o server[n].results

Finished == fetch.pc \in {"returned", "raised"}

\* C8: on a chain of k paginated responses the fetch issues exactly k
\* requests, terminates and returns the concatenation of the pages' results
\* in chain order.
C8_ChainAggregatedInOrder ==
    (Finished /\ IsChain(fetch.server))
    => /\ fetch.pc = "returned"
       /\ fetch.ret.kind = "list"
       /\ fetch.ret.value = ConcatResults(fetch.server, Len(fetch.server))
       /\ fetch.log = [i \in 1..Len(fetch.server) |-> i]

\* C9: the fetch stops at the first response that lacks the {results,
\* pagination} shape and returns that response itself, whether it is the first
\* response or one reached by a next link; a response whose pagination has no
\* next key ends the loop without raising.
C9_NonPaginatedReturnedAsIs ==
    /\ \A i \in 1..Len(fetch.log) :
          LET r == fetch.server[fetch.log[i]]
          IN  (r.status \in 200..299 /\ ~PaginatedShape(r))
              => /\ i = Len(fetch.log)
                 /\ fetch.pc = "returned"
                 /\ fetch.ret = [kind |-> "response", value |-> r]
    /\ (Len(fetch.log) >= 1
        /\ PaginatedShape(fetch.server[fetch.log[Len(fetch.log)]])
        /\ ~fetch.server[fetch.log[Len(fetch.log)]].hasNext)
       => fetch.pc # "raised"

\* C10: a request answered with a non-2xx status is the last request of the
\* fetch, which raises there and returns nothing, whatever it had gathered.
C10_ErrorStatusRaisesAtOnce ==
    \A i \in 1..Len(fetch.log) :
        fetch.server[fetch.log[i]].status \notin 200..299
        => /\ i = Len(fetch.log)
           /\ fetch.pc = "raised"
           /\ fetch.error = "HTTPError"
           /\ fetch.ret = NoReturn

\* C10 witness: the second request failed after a first page gave results
C10_Witness ==
    /\ Len(fetch.log) = 2
    /\ fetch.server[2].status = 500
    /\ fetch.results # <<>>
    /\ fetch.pc = "raised"

\* ---------------------------------------------------------- chunked_ranges

\* largest page count chunked_ranges is called with
MaxPageCount == 60

\* chunk_size=20
ChunkSize == 20

Min(a, b) == IF a <= b THEN a ELSE b

\* list(range(start, stop, step)) for step > 0
RangeList(start, stop, step) ==
    LET count == IF stop > start THEN (stop - start + step - 1) \div step ELSE 0
    IN  [k \in 1..count |-> start + (k - 1) * step]

\* variant: the end of a chunk is not cut at the last page
ChunkedRanges_NoClamp(n, chunk_size) ==
    LET starts == RangeList(1, n + 1, chunk_size)
    IN  [k \in 1..Len(starts) |-> RangeList(starts[k], starts[k] + chunk_size, 1)]

\* [list(range(i, min(i + chunk_size, n + 1))) for i in range(1, n + 1, chunk_size)]
ChunkedRanges(n, chunk_size) ==
    LET starts == RangeList(1, n + 1, chunk_size)
    IN  [k \in 1..Len(starts) |->
            RangeList(starts[k], Min(starts[k] + chunk_size, n + 1), 1)]

InitChunks ==
    /\ docs = {} /\ nextDoc = 3 /\ rels = <<>>
    /\ store0 = [docs |-> {}, rels |-> <<>>]
    /\ inv = [p \in Procs |-> IdleInv]
    /\ started = 0 /\ hist = <<>> /\ fetch = FetchIdle
    /\ asm = Unused /\ gather = Unused
    /\ handler = Unused /\ place = Unused /\ overlay = Unused
    /\ \E n \in 0..MaxPageCount :
         chunking = [pc |-> "call", n |-> n, chunks |-> <<>>]

\* chunks = chunked_ranges(len(annotation["pages"]))
ChunkedRangesCall ==
    /\ chunking.pc = "call"
    /\ chunking' = [chunking EXCEPT !.pc = "returned",
                                    !.chunks = ChunkedRanges(chunking.n, ChunkSize)]
    /\ UNCHANGED <<storeVars, fetch, asm, gather, handler, place, overlay>>

NextChunks == ChunkedRangesCall

SpecChunks == InitChunks /\ [][NextChunks]_vars

RECURSIVE Flatten(_)
\* the concatenation of a list of lists
Flatten(ss) == IF ss = <<>> THEN <<>> ELSE Head(ss) \o Flatten(Tail(ss))

\* C13: chunked_ranges(n) with chunk size 20 returns ceil(n/20) chunks, each a
\* non-empty run of consecutive page numbers of length at most 20, all but the
\* last of length exactly 20, whose concatenation is 1..n; for n = 45 the
\* chunks are [1..20], [21..40], [41..45], for n = 0 there is none.
C13_ChunksPartitionPages ==
    chunking.pc = "returned"
    => LET n == chunking.n
           cs == chunking.chunks
           m == Len(cs)
       IN  /\ 20 * m >= n /\ 20 * m < n + 20
           /\ \A k \in 1..m :
                 /\ Len(cs[k]) >= 1 /\ Len(cs[k]) <= 20
                 /\ k < m => Len(cs[k]) = 20
                 /\ \A j \in 1..(Len(cs[k]) - 1) : cs[k][j + 1] = cs[k][j] + 1
           /\ Flatten(cs) = [i \in 1..n |-> i]
           /\ n = 45 => cs = <<[i \in 1..20 |-> i], [i \in 1..20 |-> 20 + i],
                              [i \in 1..5 |-> 40 + i]>>
           /\ n = 0 => cs = <<>>

\* C13 witness: chunked_ranges(45) has returned its three chunks
C13_Witness ==
    chunking.pc = "returned" /\ chunking.n = 45 /\ Len(chunking.chunks) = 3

\* ------------------------------------------------------ build_page_data_list

\* number of annotations handed to build_page_data_list in consolidation mode
MaxDocuments == 2

AsmImpls == {"searchable_pdf", "consolidation"}

\* numbers of pages of an annotation: none, one chunk, two chunks, three chunks
PageCounts == {0, 1, ChunkSize + 1, 2 * ChunkSize + 1}

\* how the page_data responses of an annotation count against its chunks:
\* one result per requested page, one short or one too many in the last
\* chunk, or one moved from the first chunk to the last
OcrPatterns == {"exact", "short", "long", "shifted"}

\* annotation["pages"] of the d-th annotation
PageUrls(d, n) == [i \in 1..n |-> <<"pages", d, i>>]

\* the results of the page_data response to the k-th chunk of the d-th
\* annotation, each result standing for its "items"
OcrResponses(d, n, pattern) ==
    LET chunks == ChunkedRanges(n, ChunkSize)
        m == Len(chunks)
        delta(k) == CASE pattern = "short" /\ k = m -> -1
                      [] pattern = "long" /\ k = m -> 1
                      [] pattern = "shifted" /\ m >= 2 /\ k = 1 -> -1
                      [] pattern = "shifted" /\ m >= 2 /\ k = m -> 1
                      [] OTHER -> 0
    IN  [k \in 1..m |-> [j \in 1..(Len(chunks[k]) + delta(k)) |-> <<"items", d, k, j>>]]

AsmInputs(impl) ==
    LET lens == IF impl = "searchable_pdf" THEN {1} ELSE 1..MaxDocuments
    IN  UNION { { [d \in 1..len |->
                     [id |-> d, pages |-> PageUrls(d, ns[d]),
                      ocr |-> OcrResponses(d, ns[d], ps[d])]] :
                  ns \in [1..len -> PageCounts], ps \in [1..len -> OcrPatterns] } :
                len \in lens }

\* the first thing to do for annotation d: request its first chunk, or check
\* it at once when it has no page
AsmEnter(documents, d) ==
    IF ChunkedRanges(Len(documents[d].pages), ChunkSize) # <<>> THEN "ocr" ELSE "check"

InitAssemble ==
    /\ docs = {} /\ nextDoc = 3 /\ rels = <<>>
    /\ store0 = [docs |-> {}, rels |-> <<>>]
    /\ inv = [p \in Procs |-> IdleInv]
    /\ started = 0 /\ hist = <<>> /\ fetch = FetchIdle
    /\ chunking = Unused /\ gather = Unused
    /\ handler = Unused /\ place = Unused /\ overlay = Unused
    /\ \E impl \in AsmImpls :
         \E documents \in AsmInputs(impl) :
            asm = [pc |-> AsmEnter(documents, 1), impl |-> impl, documents |-> documents,
                   d |-> 1, c |-> 1,
                   page_urls |-> documents[1].pages,
                   current_ocr_pages |-> <<>>, ocr_pages |-> <<>>,
                   i |-> 1, pdf_pages |-> <<>>, calls |-> <<>>,
                   error |-> "none", result |-> <<>>]

AsmRaise(a, call, error) ==
    [a EXCEPT !.pc = "raised", !.error = error, !.calls = Append(a.calls, call)]

\* for chunk in chunks: GET annotation/page_data?page_numbers=..; extend
AsmOcrRequest(ok) ==
    /\ asm.pc = "ocr"
    /\ LET doc == asm.documents[asm.d]
           chunks == ChunkedRanges(Len(doc.pages), ChunkSize)
           call == <<"GET page_data", asm.d, chunks[asm.c]>>
       IN  asm' = IF ~ok THEN AsmRaise(asm, call, "HTTPError")
                  ELSE [asm EXCEPT !.calls = Append(asm.calls, call),
                                   !.current_ocr_pages =
                                       asm.current_ocr_pages \o doc.ocr[asm.c],
                                   !.c = asm.c + 1,
                                   !.pc = IF asm.c < Len(chunks) THEN "ocr" ELSE "check"]
    /\ UNCHANGED <<storeVars, fetch, chunking, gather, handler, place, overlay>>

\* variant: the check lets through an OCR list that is too long
SanityCheck_AtMost(pages, current_ocr_pages) == Len(pages) <= Len(current_ocr_pages)

\* assert len(annotation["pages"]) == len(current_ocr_pages)
SanityCheck(pages, current_ocr_pages) == Len(pages) = Len(current_ocr_pages)

\* variant: the OCR pages of a later annotation are put first
ExtendOcrPages_Prepend(ocr_pages, current_ocr_pages) == current_ocr_pages \o ocr_pages

\* ocr_pages.extend(current_ocr_pages)
ExtendOcrPages(ocr_pages, current_ocr_pages) == ocr_pages \o current_ocr_pages

\* the sanity check of the current annotation, then the next annotation or,
\* after the last one, the loop over the pages
AsmSanityCheck ==
    /\ asm.pc = "check"
    /\ LET doc == asm.documents[asm.d]
           more == asm.d < Len(asm.documents)
       IN  asm' = IF ~SanityCheck(doc.pages, asm.current_ocr_pages)
                  THEN [asm EXCEPT !.pc = "raised", !.error = "AssertionError"]
                  ELSE [asm EXCEPT
                          !.ocr_pages = ExtendOcrPages(asm.ocr_pages, asm.current_ocr_pages),
                          !.current_ocr_pages = <<>>,
                          !.d = asm.d + 1,
                          !.c = 1,
                          !.page_urls = IF more
                                        THEN asm.page_urls \o asm.documents[asm.d + 1].pages
                                        ELSE asm.page_urls,
                          !.pc = IF more THEN AsmEnter(asm.documents, asm.d + 1)
                                 ELSE "pages"]
    /\ UNCHANGED <<storeVars, fetch, chunking, gather, handler, place, overlay>>

\* number of iterations of the loop over the pages: enumerate(pages) in
\* searchable_pdf, zip(ocr_pages, page_urls) in consolidation
PageLoopLength(impl, ocr_pages, page_urls) ==
    IF impl = "searchable_pdf" THEN Len(page_urls)
    ELSE Min(Len(ocr_pages), Len(page_urls))

\* PageData(content, size, ocr_data)
PageData(content, size, ocr_data) ==
    [content |-> content, size |-> size, ocr_data |-> ocr_data]

\* one iteration of the loop over the pages: GET {url}/content, GET {url}
AsmPage(okContent, okInfo) ==
    /\ asm.pc = "pages"
    /\ asm.i <= PageLoopLength(asm.impl, asm.ocr_pages, asm.page_urls)
    /\ LET url == asm.page_urls[asm.i]
           a1 == [asm EXCEPT !.calls = Append(asm.calls, <<"GET content", url>>)]
       IN  asm' = IF ~okContent THEN AsmRaise(asm, <<"GET content", url>>, "HTTPError")
                  ELSE IF ~okInfo THEN AsmRaise(a1, <<"GET page", url>>, "HTTPError")
                  ELSE IF asm.i > Len(asm.ocr_pages)
                  THEN AsmRaise(a1, <<"GET page", url>>, "IndexError")
                  ELSE [a1 EXCEPT !.calls = Append(a1.calls, <<"GET page", url>>),
                                  !.pdf_pages =
                                      Append(asm.pdf_pages,
                                             PageData(<<"content", url>>, <<"size", url>>,
                                                      asm.ocr_pages[asm.i])),
                                  !.i = asm.i + 1]
    /\ UNCHANGED <<storeVars, fetch, chunking, gather, handler, place, overlay>>

\* return pages
AsmReturn ==
    /\ asm.pc = "pages"
    /\ asm.i > PageLoopLength(asm.impl, asm.ocr_pages, asm.page_urls)
    /\ asm' = [asm EXCEPT !.pc = "returned", !.result = asm.pdf_pages]
    /\ UNCHANGED <<storeVars, fetch, chunking, gather, handler, place, overlay>>

\* the handler goes on with the returned pages: it renders them and uploads
\* the artifact, then reconciles the relation
AsmHandOver ==
    /\ asm.pc = "returned"
    /\ asm' = [asm EXCEPT !.pc = "uploaded",
                          !.calls = Append(asm.calls, <<"POST documents">>)]
    /\ UNCHANGED <<storeVars, fetch, chunking, gather, handler, place, overlay>>

NextAssemble ==
    \/ \E ok \in BOOLEAN : AsmOcrRequest(ok)
    \/ AsmSanityCheck
    \/ \E okContent \in BOOLEAN, okInfo \in BOOLEAN : AsmPage(okContent, okInfo)
    \/ AsmReturn
    \/ AsmHandOver

SpecAssemble == InitAssemble /\ [][NextAssemble]_vars

\* the page locations of all documents, documents in input order
AllPageUrls(documents) == Flatten([d \in 1..Len(documents) |-> documents[d].pages])

\* the OCR item lists of all chunk responses, documents then chunks in order
AllOcrItems(documents) ==
    Flatten([d \in 1..Len(documents) |-> Flatten(documents[d].ocr)])

\* a document whose chunk responses hold more or fewer page results than it
\* declares pages
Mismatched(doc) == Len(Flatten(doc.ocr)) # Len(doc.pages)

\* C11: when build_page_data_list succeeds it returns sum(len(doc.pages))
\* page records, the k-th holding the content and size fetched from the k-th
\* page location of the concatenated page lists and the k-th OCR item list
\* of the concatenated chunk responses.
C11_PagesAssembledInOrder ==
    asm.pc = "returned"
    => LET urls == AllPageUrls(asm.documents)
           items == AllOcrItems(asm.documents)
       IN  /\ Len(asm.result) = Len(urls)
           /\ \A k \in 1..Len(asm.result) :
                 /\ asm.result[k].content = <<"content", urls[k]>>
                 /\ asm.result[k].size = <<"size", urls[k]>>
                 /\ asm.result[k].ocr_data = items[k]

\* C11 witness: two documents of several chunks were assembled, the chunk
\* responses of the first not cut where the chunks are
C11_Witness ==
    /\ asm.pc = "returned"
    /\ Len(asm.documents) = 2
    /\ Len(asm.documents[1].ocr) = 3 /\ Len(asm.documents[1].ocr[1]) = 19
    /\ Len(asm.documents[2].pages) = 21
    /\ Len(asm.result) = 62

\* C12: when the chunk responses of some input document hold more or fewer
\* page results than it declares pages, build_page_data_list raises and
\* returns nothing, no page content is fetched and nothing is uploaded.
C12_MismatchRaisesBeforeAnyFetch ==
    (asm.pc # "idle" /\ \E d \in 1..Len(asm.documents) : Mismatched(asm.documents[d]))
    => /\ asm.pc \in {"ocr", "check", "raised"}
       /\ asm.result = <<>>
       /\ \A j \in 1..Len(asm.calls) : asm.calls[j][1] = "GET page_data"

\* C12 witness: the second document had one OCR result too many and the
\* sanity check raised
C12_Witness ==
    /\ asm.pc = "raised" /\ asm.error = "AssertionError"
    /\ asm.d = 2
    /\ Len(Flatten(asm.documents[2].ocr)) = Len(asm.documents[2].pages) + 1
    /\ Len(asm.documents[1].pages) > 0

\* ------------------------------------- consolidation: annotations_to_process

\* number of attachment relations of the primary annotation
MaxRelations == 2

\* the primary annotation of the payload and the annotations relations name
PrimaryAnnotation == 1
RelatedAnnotations == {1, 2, 3}

\* relation["annotations"]: one or two annotation urls
AnnotationLists ==
    UNION {[1..n -> RelatedAnnotations] : n \in 1..2}

\* the results of GET relations?parent=..&type=attachment
RelationLists ==
    UNION {[1..n -> AnnotationLists] : n \in 0..MaxRelations}

\* dict[key] = value: a new key goes last, a key already there keeps its place
DictSet(keys, key) ==
    IF key \in Range(keys) THEN keys ELSE Append(keys, key)

InitGather ==
    /\ docs = {} /\ nextDoc = 3 /\ rels = <<>>
    /\ store0 = [docs |-> {}, rels |-> <<>>]
    /\ inv = [p \in Procs |-> IdleInv]
    /\ started = 0 /\ hist = <<>> /\ fetch = FetchIdle
    /\ chunking = Unused /\ asm = Unused
    /\ handler = Unused /\ place = Unused /\ overlay = Unused
    /\ \E relations \in RelationLists :
         gather = [pc |-> "relations", server |-> relations, relations |-> <<>>,
                   r |-> 1, a |-> 1,
                   keys |-> <<PrimaryAnnotation>>,
                   values |-> [id \in RelatedAnnotations |->
                                  IF id = PrimaryAnnotation
                                  THEN <<id, "payload", 0>> ELSE <<id, "none", 0>>],
                   calls |-> <<>>, documents |-> <<>>]

\* where the two nested loops stand after the iteration (r, a)
GatherAdvance(g, relations) ==
    IF g.a < Len(relations[g.r]) THEN [g EXCEPT !.a = g.a + 1]
    ELSE IF g.r < Len(relations) THEN [g EXCEPT !.r = g.r + 1, !.a = 1]
    ELSE [g EXCEPT !.pc = "build"]

\* relations = api_client.get_relations_parents_attachments(id)
GatherRelations(ok) ==
    /\ gather.pc = "relations"
    /\ LET g == [gather EXCEPT !.calls = Append(gather.calls, <<"GET relations">>)]
       IN  gather' = IF ~ok THEN [g EXCEPT !.pc = "raised"]
                     ELSE [g EXCEPT !.relations = gather.server,
                                    !.pc = IF gather.server = <<>> THEN "build" ELSE "loop"]
    /\ UNCHANGED <<storeVars, fetch, chunking, asm, handler, place, overlay>>

\* annotations_to_process[annotation] = api_client.get("annotations", id_=id_)
GatherAnnotation(ok) ==
    /\ gather.pc = "loop"
    /\ LET id == gather.relations[gather.r][gather.a]
           g == [gather EXCEPT !.calls = Append(gather.calls, <<"GET annotations", id>>)]
       IN  gather' = IF ~ok THEN [g EXCEPT !.pc = "raised"]
                     ELSE GatherAdvance(
                              [g EXCEPT !.keys = DictSet(gather.keys, id),
                                        !.values[id] = <<id, "api", Len(g.calls)>>],
                              gather.relations)
    /\ UNCHANGED <<storeVars, fetch, chunking, asm, handler, place, overlay>>

\* build_page_data_list(api_client, annotations_to_process.values())
GatherBuild ==
    /\ gather.pc = "build"
    /\ gather' = [gather EXCEPT !.pc = "built",
                    !.documents = [k \in 1..Len(gather.keys) |-> gather.values[gather.keys[k]]]]
    /\ UNCHANGED <<storeVars, fetch, chunking, asm, handler, place, overlay>>

NextGather ==
    \/ \E ok \in BOOLEAN : GatherRelations(ok)
    \/ \E ok \in BOOLEAN : GatherAnnotation(ok)
    \/ GatherBuild

SpecGather == InitGather /\ [][NextGather]_vars

RECURSIVE FirstAppearances(_, _)
\* the elements of a list without the ones in seen, each once, in the order
\* of its first appearance
FirstAppearances(s, seen) ==
    IF s = <<>> THEN <<>>
    ELSE IF Head(s) \in seen THEN FirstAppearances(Tail(s), seen)
    ELSE <<Head(s)>> \o FirstAppearances(Tail(s), seen \cup {Head(s)})

\* the GET annotations calls made for an annotation
FetchesOf(id) ==
    {j \in 1..Len(gather.calls) : gather.calls[j] = <<"GET annotations", id>>}

\* C14: the documents handed to the assembler are the primary annotation
\* first, then each related annotation once in the order of its first
\* appearance in the relations; an annotation already in the set is not
\* fetched again and its entry is not replaced.
C14_DuplicatesNotRefetched ==
    gather.pc = "built"
    => LET order == <<PrimaryAnnotation>> \o
                    FirstAppearances(Flatten(gather.relations), {PrimaryAnnotation})
       IN  /\ Len(gather.documents) = Len(order)
           /\ \A k \in 1..Len(order) : gather.documents[k][1] = order[k]
           /\ gather.documents[1] = <<PrimaryAnnotation, "payload", 0>>
           /\ \A k \in 2..Len(order) :
                 /\ Cardinality(FetchesOf(order[k])) = 1
                 /\ \A j \in FetchesOf(order[k]) : gather.documents[k] = <<order[k], "api", j>>
           /\ FetchesOf(PrimaryAnnotation) = {}

\* ------------------------------------------------ handlers: configuration

HandlerHooks == {"searchable_pdf", "consolidation", "swiss_qr_code_parser"}

\* payload["rossum_authorization_token"]: no such key, empty, or a token
Tokens == {"absent", "empty", "present"}
\* payload["event"]
Events == {"annotation_content", "other"}
\* payload["settings"]: every key of the dataclass, one missing, or no settings
SettingsShapes == {"complete", "missing_key", "absent"}

\* the first check of each handler
HandlerEnter(hook, event) ==
    IF hook = "swiss_qr_code_parser"
    THEN IF event # "annotation_content" THEN "token" ELSE "settings"
    ELSE "token"

InitHandler ==
    /\ docs = {} /\ nextDoc = 3 /\ rels = <<>>
    /\ store0 = [docs |-> {}, rels |-> <<>>]
    /\ inv = [p \in Procs |-> IdleInv]
    /\ started = 0 /\ hist = <<>> /\ fetch = FetchIdle
    /\ chunking = Unused /\ asm = Unused /\ gather = Unused
    /\ place = Unused /\ overlay = Unused
    /\ \E hook \in HandlerHooks, token \in Tokens, event \in Events,
          settings \in SettingsShapes :
         handler = [pc |-> HandlerEnter(hook, event), hook |-> hook, token |-> token,
                    event |-> event, settings |-> settings, calls |-> <<>>,
                    error |-> "none"]

\* where a handler goes once the token is accepted
AfterToken(hook) ==
    CASE hook = "searchable_pdf" -> "settings"
      [] hook = "consolidation" -> "event"
      [] OTHER -> "content"

\* if not token: raise
HandlerCheckToken ==
    /\ handler.pc = "token"
    /\ handler' = IF handler.token # "present"
                  THEN [handler EXCEPT !.pc = "raised", !.error = "token"]
                  ELSE [handler EXCEPT !.pc = AfterToken(handler.hook)]
    /\ UNCHANGED <<storeVars, fetch, chunking, asm, gather, place, overlay>>

\* consolidation: the hook runs on annotation_content only, else it returns
HandlerCheckEvent ==
    /\ handler.pc = "event"
    /\ handler' = [handler EXCEPT !.pc = IF handler.event = "annotation_content"
                                         THEN "settings" ELSE "returned"]
    /\ UNCHANGED <<storeVars, fetch, chunking, asm, gather, place, overlay>>

\* swiss_qr_code_parser: GET of the annotation content for another event
HandlerFetchContent(ok) ==
    /\ handler.pc = "content"
    /\ handler' = [handler EXCEPT !.calls = Append(handler.calls, "GET content"),
                                  !.pc = IF ok THEN "settings" ELSE "raised",
                                  !.error = IF ok THEN "none" ELSE "HTTPError"]
    /\ UNCHANGED <<storeVars, fetch, chunking, asm, gather, place, overlay>>

\* where a handler goes once its settings are read
AfterSettings(hook) ==
    IF hook = "swiss_qr_code_parser" THEN "returned" ELSE "pipeline"

\* Configuration(**payload["settings"]), Settings(**payload["settings"]),
\* from_dict(Settings, payload.get("settings", {}))
HandlerParseSettings ==
    /\ handler.pc = "settings"
    /\ handler' = IF handler.settings # "complete"
                  THEN [handler EXCEPT !.pc = "raised", !.error = "settings"]
                  ELSE [handler EXCEPT !.pc = AfterSettings(handler.hook)]
    /\ UNCHANGED <<storeVars, fetch, chunking, asm, gather, place, overlay>>

\* the first request of the pipeline: page_data (searchable_pdf), the
\* attachment relations (consolidation)
HandlerPipeline(ok) ==
    /\ handler.pc = "pipeline"
    /\ handler' = [handler EXCEPT !.calls = Append(handler.calls, "GET"),
                                  !.pc = IF ok THEN "returned" ELSE "raised",
                                  !.error = IF ok THEN "none" ELSE "HTTPError"]
    /\ UNCHANGED <<storeVars, fetch, chunking, asm, gather, place, overlay>>

NextHandler ==
    \/ HandlerCheckToken
    \/ HandlerCheckEvent
    \/ \E ok \in BOOLEAN : HandlerFetchContent(ok)
    \/ HandlerParseSettings
    \/ \E ok \in BOOLEAN : HandlerPipeline(ok)

SpecHandler == InitHandler /\ [][NextHandler]_vars

\* the payload lacks the token or a settings key that the handler reads for
\* this event
MissingRequired ==
    \/ /\ handler.token # "present"
       /\ handler.hook = "swiss_qr_code_parser" => handler.event # "annotation_content"
    \/ /\ handler.settings # "complete"
       /\ handler.hook = "consolidation" => handler.event = "annotation_content"

\* C15: a handler whose payload lacks a required credential or setting
\* makes no HTTP call and ends by raising.
C15_ConfigurationFailsBeforeAnyCall ==
    (handler.pc # "idle" /\ MissingRequired)
    => /\ handler.calls = <<>>
       /\ handler.pc # "returned"

\* ------------------------------------------------ overlay: token placement

\* a quotient of two numbers, kept exact (Python divides into a float)
Rat(n, d) == [num |-> n, den |-> d]

\* x0, y0, x1, y1 of item["position"]
Positions ==
    {<<x0, 20, x1, y1>> : x0 \in {0, 10}, x1 \in {10, 60}, y1 \in {20, 40}}
PageHeights == {100, 200}
\* base_font_size (default 10)
FontSizes == {10, 12}
\* c.stringWidth(text, font_name, base_font_size)
TextWidths == {0, 7, 25}
\* vertical_adjustment_factor (default 0.2)
VerticalAdjustmentFactors == {Rat(1, 5), Rat(1, 2)}

XScale_NoGuard(box_width, text_width) == Rat(box_width, text_width)

\* x_scale = box_width / text_width if text_width else 1
XScale(box_width, text_width) ==
    IF text_width # 0 THEN Rat(box_width, text_width) ELSE Rat(1, 1)

\* y_scale = box_height / base_font_size
YScale(box_height, base_font_size) == Rat(box_height, base_font_size)

\* y_baseline = height - y1
YBaseline(height, y1) == height - y1

\* vertical_adjustment = base_font_size * vertical_adjustment_factor
VerticalAdjustment(base_font_size, factor) ==
    Rat(base_font_size * factor.num, factor.den)

\* the canvas calls that place and draw one token
DrawOps(position, text, text_width, height, base_font_size, factor) ==
    << [op |-> "saveState"],
       [op |-> "translate", x |-> position[1], y |-> YBaseline(height, position[4])],
       [op |-> "scale", x |-> XScale(position[3] - position[1], text_width),
                        y |-> YScale(position[4] - position[2], base_font_size)],
       [op |-> "drawString", x |-> 0,
                             y |-> VerticalAdjustment(base_font_size, factor),
                             text |-> text],
       [op |-> "restoreState"] >>

InitPlace ==
    /\ docs = {} /\ nextDoc = 3 /\ rels = <<>>
    /\ store0 = [docs |-> {}, rels |-> <<>>]
    /\ inv = [p \in Procs |-> IdleInv]
    /\ started = 0 /\ hist = <<>> /\ fetch = FetchIdle
    /\ chunking = Unused /\ asm = Unused /\ gather = Unused
    /\ handler = Unused /\ overlay = Unused
    /\ \E position \in Positions, height \in PageHeights, size \in FontSizes,
          width \in TextWidths, factor \in VerticalAdjustmentFactors :
         place = [pc |-> "token", position |-> position, height |-> height,
                  base_font_size |-> size, text_width |-> width,
                  factor |-> factor, ops |-> <<>>]

\* one iteration of the token loop, for a token with non-blank text
PlaceToken ==
    /\ place.pc = "token"
    /\ place' = [place EXCEPT
                   !.pc = "drawn",
                   !.ops = DrawOps(place.position, <<"a">>, place.text_width,
                                   place.height, place.base_font_size, place.factor)]
    /\ UNCHANGED <<storeVars, fetch, chunking, asm, gather, handler, overlay>>

NextPlace == PlaceToken

SpecPlace == InitPlace /\ [][NextPlace]_vars

\* the quotient q is defined and equals n / d
IsQuotient(q, n, d) == q.den # 0 /\ d # 0 /\ q.num * d = n * q.den

\* the token of the worked example
ExamplePlacement ==
    /\ place.position = <<10, 20, 60, 40>>
    /\ place.height = 200
    /\ place.base_font_size = 10
    /\ place.text_width = 25

\* C16: a drawn token is translated to (x0, H - y1), scaled by
\* ((x1 - x0)/W, (y1 - y0)/S), by (1, (y1 - y0)/S) when W = 0, and its text
\* is drawn at (0, S * verticalAdjustmentFactor); the example token gets
\* baseline 160 and scales (2, 2).
C16_PlacementFormula ==
    place.pc = "drawn" =>
      LET p == place.position
          t == place.ops[2]
          s == place.ops[3]
          d == place.ops[4]
      IN /\ t.op = "translate" /\ t.x = p[1] /\ t.y = place.height - p[4]
         /\ s.op = "scale"
         /\ IsQuotient(s.y, p[4] - p[2], place.base_font_size)
         /\ place.text_width > 0 => IsQuotient(s.x, p[3] - p[1], place.text_width)
         /\ place.text_width = 0 => IsQuotient(s.x, 1, 1)
         /\ d.op = "drawString" /\ d.x = 0
         /\ IsQuotient(d.y, place.base_font_size * place.factor.num, place.factor.den)
         /\ ExamplePlacement =>
              /\ t.y = 160
              /\ IsQuotient(s.x, 2, 1)
              /\ IsQuotient(s.y, 2, 1)

\* a zero-width token has been placed
C16_Witness ==
    /\ place.pc = "drawn"
    /\ place.text_width = 0
    /\ place.position[3] # place.position[1]

\* ------------------------------------------------ overlay: pages and tokens

MaxOverlayPages == 2
\* tokens of one document, over all its pages
MaxTokens == 2

\* characters that str.strip() removes
Whitespace == {" "}

\* item["text"], as a sequence of characters; "zwj" stands for a character
\* the font measures as zero wide
Texts == {<<>>, <<" ">>, <<"a">>, <<" ", "b">>, <<"zwj">>}

\* c.stringWidth: the widths of the characters add up
CharWidth(ch) ==
    CASE ch = "zwj" -> 0
      [] ch = " " -> 3
      [] OTHER -> 6

RECURSIVE StringWidth(_)
StringWidth(text) ==
    IF text = <<>> THEN 0 ELSE CharWidth(Head(text)) + StringWidth(Tail(text))

RECURSIVE LStrip(_)
LStrip(text) ==
    IF text # <<>> /\ Head(text) \in Whitespace THEN LStrip(Tail(text)) ELSE text

RECURSIVE RStrip(_)
RStrip(text) ==
    IF text # <<>> /\ text[Len(text)] \in Whitespace
    THEN RStrip(SubSeq(text, 1, Len(text) - 1))
    ELSE text

\* text.strip()
Strip(text) == RStrip(LStrip(text))

Blank_EmptyOnly(text) == text = <<>>

\* not text.strip()
Blank(text) == Strip(text) = <<>>

OcrItems == {[position |-> <<10, 20, 60, 40>>, text |-> t] : t \in Texts}

\* page.size: width, height
PageSizes == {<<100, 200>>, <<50, 80>>}

OcrLists(n) == UNION {[1..k -> OcrItems] : k \in 0..n}

\* the lists of at most n pages that hold at most budget tokens
RECURSIVE PageLists(_, _)
PageLists(n, budget) ==
    {<<>>} \cup
    IF n = 0 THEN {}
    ELSE UNION {{<<[size |-> size, ocr_data |-> items]>> \o rest :
                    rest \in PageLists(n - 1, budget - Len(items))} :
                size \in PageSizes, items \in OcrLists(budget)}

InitOverlay ==
    /\ docs = {} /\ nextDoc = 3 /\ rels = <<>>
    /\ store0 = [docs |-> {}, rels |-> <<>>]
    /\ inv = [p \in Procs |-> IdleInv]
    /\ started = 0 /\ hist = <<>> /\ fetch = FetchIdle
    /\ chunking = Unused /\ asm = Unused /\ gather = Unused
    /\ handler = Unused /\ place = Unused
    /\ \E pages \in PageLists(MaxOverlayPages, MaxTokens), size \in {10},
          factor \in {Rat(1, 5)} :
         overlay = [pc |-> "page", pages |-> pages, base_font_size |-> size,
                    factor |-> factor, i |-> 1, j |-> 1, ops |-> <<>>]

\* for page in pages: setPageSize, the background image, the fill
OverlayBeginPage ==
    /\ overlay.pc = "page"
    /\ overlay.i <= Len(overlay.pages)
    /\ LET page == overlay.pages[overlay.i]
       IN overlay' = [overlay EXCEPT
            !.pc = "token",
            !.j = 1,
            !.ops = overlay.ops \o
                    << [op |-> "setPageSize", size |-> page.size],
                       [op |-> "drawImage", x |-> 0, y |-> 0,
                        width |-> page.size[1], height |-> page.size[2]],
                       [op |-> "setFillColorRGB"],
                       [op |-> "setFillAlpha", alpha |-> 0] >>]
    /\ UNCHANGED <<storeVars, fetch, chunking, asm, gather, handler, place>>

\* if not text.strip(): continue
OverlaySkipToken ==
    /\ overlay.pc = "token"
    /\ overlay.j <= Len(overlay.pages[overlay.i].ocr_data)
    /\ Blank(overlay.pages[overlay.i].ocr_data[overlay.j].text)
    /\ overlay' = [overlay EXCEPT !.j = overlay.j + 1]
    /\ UNCHANGED <<storeVars, fetch, chunking, asm, gather, handler, place>>

\* setFont, then the placement and the text of the token
OverlayDrawToken ==
    /\ overlay.pc = "token"
    /\ overlay.j <= Len(overlay.pages[overlay.i].ocr_data)
    /\ LET page == overlay.pages[overlay.i]
           item == page.ocr_data[overlay.j]
       IN /\ ~Blank(item.text)
          /\ overlay' = [overlay EXCEPT
               !.j = overlay.j + 1,
               !.ops = overlay.ops \o
                       << [op |-> "setFont", size |-> overlay.base_font_size] >> \o
                       DrawOps(item.position, item.text, StringWidth(item.text),
                               page.size[2], overlay.base_font_size, overlay.factor)]
    /\ UNCHANGED <<storeVars, fetch, chunking, asm, gather, handler, place>>

\* c.showPage() after the last token of the page
OverlayShowPage ==
    /\ overlay.pc = "token"
    /\ overlay.j > Len(overlay.pages[overlay.i].ocr_data)
    /\ overlay' = [overlay EXCEPT !.pc = "page", !.i = overlay.i + 1,
                                  !.ops = Append(overlay.ops, [op |-> "showPage"])]
    /\ UNCHANGED <<storeVars, fetch, chunking, asm, gather, handler, place>>

\* c.save() after the last page
OverlaySave ==
    /\ overlay.pc = "page"
    /\ overlay.i > Len(overlay.pages)
    /\ overlay' = [overlay EXCEPT !.pc = "saved",
                                  !.ops = Append(overlay.ops, [op |-> "save"])]
    /\ UNCHANGED <<storeVars, fetch, chunking, asm, gather, handler, place>>

NextOverlay ==
    \/ OverlayBeginPage
    \/ OverlaySkipToken
    \/ OverlayDrawToken
    \/ OverlayShowPage
    \/ OverlaySave

SpecOverlay == InitOverlay /\ [][NextOverlay]_vars

\* the text has a character that trimming keeps
NonBlank(text) == \E n \in DOMAIN text : text[n] # " "

\* position in the log of the k-th call of the named canvas method
NthCall(log, name, k) ==
    CHOOSE n \in DOMAIN log :
        /\ log[n].op = name
        /\ Cardinality({m \in 1..n : log[m].op = name}) = k

\* the calls between the k-th setPageSize and the k-th showPage
PageCalls(log, k) ==
    SubSeq(log, NthCall(log, "setPageSize", k) + 1, NthCall(log, "showPage", k) - 1)

CallsOf(calls, name) == SelectSeq(calls, LAMBDA call : call.op = name)

\* C17: the overlay has one page per record, in order, of the record's size,
\* each shown before the next begins; page k draws exactly the non-blank
\* tokens of record k, in order, and a blank token makes no saveState,
\* translate, scale, drawString or restoreState call.
C17_OnePagePerRecordNonBlankTokensOnly ==
    overlay.pc = "saved" =>
      LET log == overlay.ops
          pages == overlay.pages
          frame == SelectSeq(log, LAMBDA call :
                               call.op \in {"setPageSize", "showPage", "save"})
      IN /\ Len(frame) = 2 * Len(pages) + 1
         /\ frame[Len(frame)].op = "save"
         /\ \A k \in DOMAIN pages :
              /\ frame[2 * k - 1] = [op |-> "setPageSize", size |-> pages[k].size]
              /\ frame[2 * k].op = "showPage"
              /\ LET calls == PageCalls(log, k)
                     tokens == SelectSeq(pages[k].ocr_data,
                                         LAMBDA item : NonBlank(item.text))
                     drawn == CallsOf(calls, "drawString")
                 IN /\ Len(drawn) = Len(tokens)
                    /\ \A n \in DOMAIN tokens : drawn[n].text = tokens[n].text
                    /\ \A name \in {"saveState", "translate", "scale", "restoreState"} :
                         Len(CallsOf(calls, name)) = Len(tokens)
                    /\ \A n \in DOMAIN calls :
                         calls[n].op = "drawImage" =>
                           /\ calls[n].width = pages[k].size[1]
                           /\ calls[n].height = pages[k].size[2]

\* a two-page overlay of different sizes with a blank and a drawn token
C17_Witness ==
    /\ overlay.pc = "saved"
    /\ Len(overlay.pages) = 2
    /\ overlay.pages[1].size # overlay.pages[2].size
    /\ \E k \in DOMAIN overlay.pages :
         \E n \in DOMAIN overlay.pages[k].ocr_data :
            overlay.pages[k].ocr_data[n].text = <<" ">>
    /\ \E n \in DOMAIN overlay.ops : overlay.ops[n].op = "drawString"

\* ------------------------------------------------ concurrent invocations

\* the (key, annotation) pair the concurrent invocations share
RaceKey == "export_pdf"

\* the store holds no relation when the first invocation starts
InitConcurrent == Init /\ rels = <<>>

\* the platform starts a hook whenever a process is free, whatever the
\* other process is doing
StartConcurrent ==
    \E p \in Procs, hook \in Hooks, annotation \in Annotations :
        Start(p, hook, RaceKey, annotation)

NextConcurrent ==
    \/ StartConcurrent
    \/ \E p \in Procs : Step(p)

SpecConcurrent == InitConcurrent /\ [][NextConcurrent]_vars

\* the lookup of p returned no relation and p has finished its writes
CreatedAfterEmptyLookup(p) ==
    /\ inv[p].pc = "done"
    /\ inv[p].matches = <<>>

\* C18: two concurrent invocations of the same (key, annotation) pair whose
\* lookups both found no relation both take the create path, and the store
\* ends with two relations for the pair.
C18_ConcurrentLookupsCreateTwoRelations ==
    /\ \A p \in Procs :
         (inv[p].pc \in {"retrieve", "update", "delete"}) => inv[p].matches # <<>>
    /\ \A p, q \in Procs :
         (/\ p # q
          /\ inv[p].key = inv[q].key
          /\ inv[p].annotation = inv[q].annotation
          /\ CreatedAfterEmptyLookup(p)
          /\ CreatedAfterEmptyLookup(q))
         => /\ Cardinality(RelationsFor(inv[p].key, inv[p].annotation)) = 2
            /\ inv[p].calls[Len(inv[p].calls)] = "POST document_relations"
            /\ inv[q].calls[Len(inv[q].calls)] = "POST document_relations"

\* both invocations have created a relation for the pair they share
C18_Witness ==
    /\ inv[1].key = inv[2].key
    /\ inv[1].annotation = inv[2].annotation
    /\ CreatedAfterEmptyLookup(1)
    /\ CreatedAfterEmptyLookup(2)
    /\ Cardinality(RelationsFor(inv[1].key, inv[1].annotation)) = 2

\* ------------------------------------------------ duplicate relations

\* the store two racing invocations leave behind: two relations of one
\* pair, each with the document its creator uploaded
InitDuplicates ==
    /\ docs = {1, 2}
    /\ rels = <<[id |-> 1, type |-> "export", key |-> "export_pdf",
                 annotation |-> AnnotationUrl(7), documents |-> <<DocumentUrl(1)>>],
                [id |-> 2, type |-> "export", key |-> "export_pdf",
                 annotation |-> AnnotationUrl(7), documents |-> <<DocumentUrl(2)>>]>>
    /\ store0 = [docs |-> docs, rels |-> rels]
    /\ nextDoc = 3
    /\ inv = [p \in Procs |-> IdleInv]
    /\ started = 0
    /\ hist = <<>>
    /\ fetch = FetchIdle
    /\ chunking = Unused /\ asm = Unused /\ gather = Unused
    /\ handler = Unused /\ place = Unused /\ overlay = Unused

SpecDuplicates == InitDuplicates /\ [][Next]_vars

\* ids of the documents a relation lists
DocumentIds(relation) ==
    {LastSegment(relation.documents[i]) : i \in 1..Len(relation.documents)}

\* C19: an invocation whose lookup returned several relations changes the
\* first one only and deletes documents of the first one only; the other
\* relations of the pair and their documents stay as they were.
C19_OnlyFirstMatchReconciled ==
    \A p \in Procs :
      Len(inv[p].matches) > 1 =>
        LET pre == inv[p].pre
            first == inv[p].matches[1]
        IN /\ Len(rels) = Len(pre.rels)
           /\ \A i \in 1..Len(rels) : rels[i].id # first.id => rels[i] = pre.rels[i]
           /\ (pre.docs \ docs) \subseteq DocumentIds(first)
           /\ \A n \in 2..Len(inv[p].matches) :
                (DocumentIds(inv[p].matches[n]) \cap pre.docs) \subseteq docs
           /\ inv[p].pc = "done" =>
                \E i \in 1..Len(rels) :
                   /\ rels[i].id = first.id
                   /\ rels[i].documents = <<inv[p].document>>

\* an invocation that met two relations has updated the first and deleted
\* its old document
C19_Witness ==
    \E p \in Procs :
       /\ inv[p].pc = "done"
       /\ Len(inv[p].matches) = 2
       /\ inv[p].pre.docs \ docs # {}
       /\ rels[1].documents = <<inv[p].document>>
       /\ rels[2] = inv[p].pre.rels[2]
====
